---- MODULE Spec2Model ----
(***************************************************************************)
(* Paradigm FSPD automated market taker (src/fspd/auto-taker.py).          *)
(*                                                                         *)
(* The model follows AutoTaker.manager: one listing call, one construction *)
(* of the order list, then the endless loop create_task* / gather / sleep. *)
(* Every post_order task is a small process of its own: it signs and       *)
(* issues its request in one step (no suspension point lies between the    *)
(* start of the coroutine and the connection attempt) and settles in a     *)
(* second step when the venue answers or the transport fails.              *)
(***************************************************************************)
EXTENDS Integers, Sequences, FiniteSets, TLC

VARIABLES
    cfg,                    \* constructor arguments and the module global url
    pc,                     \* position of the manager coroutine
    error,                  \* exception that ended manager ("None" while alive)
    availabile_strateies,   \* self.availabile_strateies
    order_payloads,         \* self.order_payloads
    tasks,                  \* submitted_orders of the current round
    round,                  \* number of the round dispatched last
    clock,                  \* time.time() in whole milliseconds
    listing,                \* the GET /strategies request and its outcome
    sleepDur                \* argument of the pending asyncio.sleep

vars == <<cfg, pc, error, availabile_strateies, order_payloads, tasks,
          round, clock, listing, sleepDur>>

(***************************************************************************)
(* Bounds of the model.                                                    *)
(***************************************************************************)
MaxStrategies == 1      \* strategies returned by the venue in Spec
MaxBuildLen == 3        \* strategies handed to the builder in SpecBuild
MaxRound == 2           \* the round counter saturates here
MaxClock == 1           \* largest clock reading, in milliseconds
MaxBoundary == 1        \* largest configured sleep boundary, in seconds
SleepResolution == 2    \* random() is drawn on the grid k / SleepResolution

(***************************************************************************)
(* Values the environment supplies.                                        *)
(***************************************************************************)
None == "None"
Undefined == "<undefined>"

StrategyIds == {"s1", "s2", "s3", "s4"}
BlockSizes == {0, 3}
TestUrl == "https://api.fs.test.paradigm.co"
OtherUrl == "https://api.fs.other.paradigm.co"
AccountName == "acct"
AccessKey == "access"
SecretKeys == {"a2V5", "<secret-key>"}
ListingStatuses == {200, 500}
PostStatuses == {201, 400}

\* variant: the members declared in the other order
TradeActionSellFirst == <<"SELL", "BUY">>

\* class TradeAction, in definition order (the order [*TradeAction] yields)
TradeAction == <<"BUY", "SELL">>

\* class OrderType
OrderType == <<"LIMIT", "MARKET">>

\* class Strategy
Strategy(id, min_block_size) == [id |-> id, min_block_size |-> min_block_size]

\* variant: a limit order with a price
OrderWithPrice(id, side, amount, account_name) ==
    [id |-> id, side |-> side, amount |-> amount,
     account_name |-> account_name, type |-> OrderType[1], price |-> "1"]

\* Order.__init__ with its defaults type = OrderType.MARKET.name, price = None
Order(id, side, amount, account_name) ==
    [id |-> id, side |-> side, amount |-> amount,
     account_name |-> account_name, type |-> OrderType[2], price |-> None]

\* Order.order_payload: the price key exists only for a truthy price
order_payload(order) ==
    LET base == [account_name |-> order.account_name,
                 strategy_id |-> order.id,
                 type |-> order.type,
                 amount |-> order.amount,
                 side |-> order.side]
    IN  IF order.price # None /\ order.price # ""
        THEN base @@ [price |-> order.price]
        ELSE base

(***************************************************************************)
(* Byte strings, base64 and the keyed digest.                              *)
(***************************************************************************)
\* variant: no key is rejected
B64DecodeRaisesNever(key) == FALSE

\* base64.b64decode of the configured keys: "a2V5" is b'key'; the placeholder
\* '<secret-key>' keeps 9 alphabet characters and raises binascii.Error;
\* b64decode runs without validate, so the characters outside the alphabet
\* are dropped first and "!!!!" is decoded as the empty input
B64DecodeRaises(key) == key \notin {"a2V5", "!!!!"}

B64Decode(key) == CASE key = "a2V5" -> "key" [] OTHER -> ""

\* base64.b64encode and hmac.digest(.., 'sha256') as free constructors
B64Encode(bytes) == <<"b64", bytes>>

HmacSha256(signing_key, message) == <<"hmac-sha256", signing_key, message>>

\* bytes.upper on the method names
Upper(method) ==
    CASE method = "get" -> "GET"
      [] method = "post" -> "POST"
      [] OTHER -> method

\* sep.join(parts)
RECURSIVE Join(_, _)
Join(sep, parts) ==
    IF parts = <<>> THEN ""
    ELSE IF Len(parts) = 1 THEN parts[1]
    ELSE parts[1] \o sep \o Join(sep, Tail(parts))

\* json.dumps of an order payload dict (insertion order, default separators)
JsonDumps(payload) ==
    "{\"account_name\": \"" \o payload.account_name
        \o "\", \"strategy_id\": \"" \o payload.strategy_id
        \o "\", \"type\": \"" \o payload.type
        \o "\", \"amount\": " \o ToString(payload.amount)
        \o ", \"side\": \"" \o payload.side \o "\""
        \o (IF "price" \in DOMAIN payload
            THEN ", \"price\": \"" \o payload.price \o "\""
            ELSE "")
        \o "}"

\* variant: the request body is serialized with compact separators
RequestJsonBodyCompact(payload) ==
    "{\"account_name\":\"" \o payload.account_name
        \o "\",\"strategy_id\":\"" \o payload.strategy_id
        \o "\",\"type\":\"" \o payload.type
        \o "\",\"amount\":" \o ToString(payload.amount)
        \o ",\"side\":\"" \o payload.side \o "\""
        \o (IF "price" \in DOMAIN payload
            THEN ",\"price\":\"" \o payload.price \o "\""
            ELSE "")
        \o "}"

\* the body session.post transmits for json=order_payload: the client
\* serializes the dict with json.dumps
RequestJsonBody(payload) == JsonDumps(payload)

\* variant: the method is put in front of the timestamp
sign_requestMethodFirst(paradigm_secret_key, method, path, body, now) ==
    LET signing_key == B64Decode(paradigm_secret_key)
        timestamp == ToString(now)
        message == Join("\n", <<Upper(method), timestamp, path, body>>)
        digest == HmacSha256(signing_key, message)
        signature == B64Encode(digest)
    IN  [timestamp |-> timestamp, signature |-> signature,
         message |-> message]

\* AutoTaker.sign_request at clock reading now; message is kept beside the
\* returned (timestamp, signature) pair
sign_request(paradigm_secret_key, method, path, body, now) ==
    LET signing_key == B64Decode(paradigm_secret_key)
        timestamp == ToString(now)
        message == Join("\n", <<timestamp, Upper(method), path, body>>)
        digest == HmacSha256(signing_key, message)
        signature == B64Encode(digest)
    IN  [timestamp |-> timestamp, signature |-> signature,
         message |-> message]

TimestampHeader == "Paradigm-API-Timestamp"
SignatureHeader == "Paradigm-API-Signature"
AuthorizationHeader == "Authorization"

\* variant: the pair of the first request is kept and sent again
create_rest_headersCached(signed, access_key) ==
    LET pair == IF listing.state = "none" THEN signed
                ELSE listing.req.signed
    IN  (TimestampHeader :> pair.timestamp)
        @@ (SignatureHeader :> pair.signature)
        @@ (AuthorizationHeader :> ("Bearer " \o access_key))

\* the headers dict of AutoTaker.create_rest_headers, from the pair that its
\* sign_request call returned
create_rest_headers(signed, access_key) ==
    (TimestampHeader :> signed.timestamp)
    @@ (SignatureHeader :> signed.signature)
    @@ (AuthorizationHeader :> ("Bearer " \o access_key))

\* one HTTP request: what is put on the wire, and the sign_request result
\* obtained for it
Request(method, path, body, signed, headers, base_url) ==
    [method |-> method, path |-> path, url |-> base_url \o path,
     body |-> body, headers |-> headers, signed |-> signed]

NoSigned == [timestamp |-> "", signature |-> <<>>, message |-> ""]

NoReq == [method |-> "", path |-> "", url |-> "", body |-> "",
          headers |-> <<>>, signed |-> NoSigned]

OrdersPath == "/v1/fs/orders"
StrategiesPath == "/v1/fs/strategies?page_size=100"

(***************************************************************************)
(* Pure parts of the manager.                                              *)
(***************************************************************************)
\* variant: only the first side is emitted
OrdersOfStrategyFirstSide(strategy, sides, account_name) ==
    IF sides = <<>> THEN <<>>
    ELSE <<Order(strategy.id, Head(sides), strategy.min_block_size,
                 account_name)>>

\* inner loop of construct_order_payloads: for side in [*TradeAction]
RECURSIVE OrdersOfStrategy(_, _, _)
OrdersOfStrategy(strategy, sides, account_name) ==
    IF sides = <<>> THEN <<>>
    ELSE <<Order(strategy.id, Head(sides), strategy.min_block_size,
                 account_name)>>
         \o OrdersOfStrategy(strategy, Tail(sides), account_name)

RECURSIVE RepeatSeq(_, _)
RepeatSeq(s, n) == IF n <= 0 THEN <<>> ELSE s \o RepeatSeq(s, n - 1)

\* variant: order_number_per_strategy orders are built per side
RECURSIVE construct_order_payloadsPerNumber(_, _)
construct_order_payloadsPerNumber(strategies, account_name) ==
    IF strategies = <<>> THEN <<>>
    ELSE RepeatSeq(OrdersOfStrategy(Head(strategies), TradeAction,
                                    account_name),
                   cfg.order_number_per_strategy)
         \o construct_order_payloadsPerNumber(Tail(strategies), account_name)

\* AutoTaker.construct_order_payloads: for strategy in availabile_strateies
RECURSIVE construct_order_payloads(_, _)
construct_order_payloads(strategies, account_name) ==
    IF strategies = <<>> THEN <<>>
    ELSE OrdersOfStrategy(Head(strategies), TradeAction, account_name)
         \o construct_order_payloads(Tail(strategies), account_name)

\* what get_strategies returns: the parsed dict on 200, otherwise the
\* ClientResponse object itself
get_strategies_return(status, body) ==
    IF status = 200
    THEN [type |-> "dict", body |-> body]
    ELSE [type |-> "ClientResponse", body |-> body]

\* variant: a response that is not the parsed dict is read all the same
IngestRaisesLenient(response) ==
    IF response.type = "dict" /\ ~response.body.has_results THEN "KeyError"
    ELSE None

\* response['results'] in ingest_available_strategies
IngestRaises(response) ==
    IF response.type # "dict" THEN "TypeError"
    ELSE IF ~response.body.has_results THEN "KeyError"
    ELSE None

\* AutoTaker.ingest_available_strategies
ingest_available_strategies(response) ==
    [i \in 1..Len(response.body.results) |->
        Strategy(response.body.results[i].id,
                 response.body.results[i].min_block_size)]

\* variant: a + b * random()
uniformFromZero(a, b) ==
    {a * SleepResolution + b * k : k \in 0..SleepResolution}

\* random.uniform(a, b) = a + (b - a) * random(), in units of
\* 1 / SleepResolution seconds; the end point b is reachable by rounding
uniform(a, b) ==
    {a * SleepResolution + (b - a) * k : k \in 0..SleepResolution}

(***************************************************************************)
(* The environment's inputs.                                               *)
(***************************************************************************)
\* lists of at most n strategies over ids, every id listed once (ids are
\* assigned by the venue and unique)
StrategyLists(ids, sizes, n) ==
    UNION {{s \in [1..k -> [id : ids, min_block_size : sizes]] :
                \A i, j \in 1..k : i # j => s[i].id # s[j].id} : k \in 0..n}

\* what the venue lists in Spec
ListedIds == {"s1", "s2"}
ListedSizes == {3}

\* JSON bodies the venue may send with the listing response
ListingBodies ==
    {[has_results |-> TRUE, results |-> r] :
        r \in StrategyLists(ListedIds, ListedSizes, MaxStrategies)}
    \cup {[has_results |-> FALSE, results |-> <<>>]}

ModuleUrls == {TestUrl, Undefined}

\* arguments of AutoTaker.__init__ after its int() conversions, and the
\* module level name paradigm_http_url that the request methods read
Configs ==
    [paradigm_http_url : {TestUrl},
     module_paradigm_http_url : ModuleUrls,
     paradigm_taker_account_name : {AccountName},
     paradigm_taker_access_key : {AccessKey},
     paradigm_taker_secret_key : SecretKeys,
     order_number_per_strategy : {1},
     order_submission_lower_boundary : 0..MaxBoundary,
     order_submission_higher_boundary : 0..MaxBoundary]

NoListing == [state |-> "none", req |-> NoReq, status |-> 0, calls |-> 0]

Init ==
    /\ cfg \in Configs
    /\ pc = "boot"
    /\ error = None
    /\ availabile_strateies = <<>>
    /\ order_payloads = <<>>
    /\ tasks = <<>>
    /\ round = 0
    /\ clock = 0
    /\ listing = NoListing
    /\ sleepDur = 0

(***************************************************************************)
(* Bootstrapping: manager lines 139-142.                                   *)
(***************************************************************************)
\* get_strategies up to the suspension in session.get: sign, build the
\* headers, evaluate paradigm_http_url + path and issue the request
GetStrategiesStart ==
    /\ pc = "boot"
    /\ LET signed == sign_request(cfg.paradigm_taker_secret_key, "GET",
                                  StrategiesPath, "", clock)
           headers == create_rest_headers(signed,
                                          cfg.paradigm_taker_access_key)
       IN  IF B64DecodeRaises(cfg.paradigm_taker_secret_key)
           THEN /\ pc' = "crashed"
                /\ error' = "binascii.Error"
                /\ UNCHANGED listing
           ELSE IF cfg.module_paradigm_http_url = Undefined
           THEN /\ pc' = "crashed"
                /\ error' = "NameError"
                /\ UNCHANGED listing
           ELSE /\ pc' = "listing"
                /\ listing' = [state |-> "sent",
                               req |-> Request("GET", StrategiesPath, "",
                                               signed, headers,
                                               cfg.module_paradigm_http_url),
                               status |-> 0,
                               calls |-> listing.calls + 1]
                /\ UNCHANGED error
    /\ UNCHANGED <<cfg, availabile_strateies, order_payloads, tasks, round,
                   clock, sleepDur>>

\* the listing response arrives; get_strategies returns and
\* ingest_available_strategies reads response['results']
GetStrategiesResponse ==
    /\ pc = "listing"
    /\ \E status \in ListingStatuses, body \in ListingBodies :
        LET response == get_strategies_return(status, body)
        IN  /\ listing' = [listing EXCEPT !.state = "answered",
                                          !.status = status]
            /\ IF IngestRaises(response) # None
               THEN /\ pc' = "crashed"
                    /\ error' = IngestRaises(response)
                    /\ UNCHANGED availabile_strateies
               ELSE /\ pc' = "construct"
                    /\ availabile_strateies' =
                           ingest_available_strategies(response)
                    /\ UNCHANGED error
    /\ UNCHANGED <<cfg, order_payloads, tasks, round, clock, sleepDur>>

\* session.get raises (connection refused, reset, ...): nothing catches it
GetStrategiesTransportError ==
    /\ pc = "listing"
    /\ listing' = [listing EXCEPT !.state = "failed"]
    /\ pc' = "crashed"
    /\ error' = "ClientError"
    /\ UNCHANGED <<cfg, availabile_strateies, order_payloads, tasks, round,
                   clock, sleepDur>>

\* manager line 142
ConstructOrderPayloads ==
    /\ pc = "construct"
    /\ order_payloads' =
           construct_order_payloads(availabile_strateies,
                                    cfg.paradigm_taker_account_name)
    /\ pc' = "dispatch"
    /\ UNCHANGED <<cfg, error, availabile_strateies, tasks, round, clock,
                   listing, sleepDur>>

(***************************************************************************)
(* The loop: manager lines 144-162.                                        *)
(***************************************************************************)
NewTask(order) ==
    [state |-> "created", payload |-> order_payload(order), req |-> NoReq,
     status |-> 0, logged |-> "", exc |-> None]

\* variant: the orders are taken out of the list as they are submitted
DispatchConsuming ==
    /\ pc = "dispatch"
    /\ tasks' = [i \in 1..Len(order_payloads) |-> NewTask(order_payloads[i])]
    /\ order_payloads' = <<>>
    /\ round' = IF round < MaxRound THEN round + 1 ELSE round
    /\ pc' = "gather"
    /\ UNCHANGED <<cfg, error, availabile_strateies, clock, listing,
                   sleepDur>>

\* variant: submitted_orders is not emptied at the start of a round
DispatchAccumulating ==
    /\ pc = "dispatch"
    /\ tasks' = tasks \o [i \in 1..Len(order_payloads) |->
                              NewTask(order_payloads[i])]
    /\ round' = IF round < MaxRound THEN round + 1 ELSE round
    /\ pc' = "gather"
    /\ UNCHANGED <<cfg, error, availabile_strateies, order_payloads, clock,
                   listing, sleepDur>>

\* lines 145-153: one task per order; none of them runs before manager
\* suspends in gather
Dispatch ==
    /\ pc = "dispatch"
    /\ tasks' = [i \in 1..Len(order_payloads) |-> NewTask(order_payloads[i])]
    /\ round' = IF round < MaxRound THEN round + 1 ELSE round
    /\ pc' = "gather"
    /\ UNCHANGED <<cfg, error, availabile_strateies, order_payloads, clock,
                   listing, sleepDur>>

\* post_order lines 207-224: the task's first step.  Tasks are started in
\* the order of their creation.
PostOrderStart(i) ==
    /\ pc = "gather"
    /\ i \in 1..Len(tasks)
    /\ tasks[i].state = "created"
    /\ \A j \in 1..(i - 1) : tasks[j].state # "created"
    /\ LET method == "POST"
           path == OrdersPath
           _payload == JsonDumps(tasks[i].payload)
           signed == sign_request(cfg.paradigm_taker_secret_key, method,
                                  path, _payload, clock)
           headers == create_rest_headers(signed,
                                          cfg.paradigm_taker_access_key)
       IN  tasks' = [tasks EXCEPT ![i] =
               IF B64DecodeRaises(cfg.paradigm_taker_secret_key)
               THEN [@ EXCEPT !.state = "raised", !.exc = "binascii.Error"]
               ELSE IF cfg.module_paradigm_http_url = Undefined
               THEN [@ EXCEPT !.state = "raised", !.exc = "NameError"]
               ELSE [@ EXCEPT !.state = "inflight",
                              !.req = Request(method, path,
                                          RequestJsonBody(tasks[i].payload),
                                          signed, headers,
                                          cfg.module_paradigm_http_url)]]
    /\ UNCHANGED <<cfg, pc, error, availabile_strateies, order_payloads,
                   round, clock, listing, sleepDur>>

AllStarted == \A j \in 1..Len(tasks) : tasks[j].state # "created"

\* post_order lines 225-233: a response arrives.  response.json() is read
\* before the status is looked at and raises on a body that is not JSON.
PostOrderResponse(i) ==
    /\ pc = "gather"
    /\ AllStarted
    /\ i \in 1..Len(tasks)
    /\ tasks[i].state = "inflight"
    /\ \E status_code \in PostStatuses, is_json \in BOOLEAN :
        tasks' = [tasks EXCEPT ![i] =
            IF ~is_json
            THEN [@ EXCEPT !.state = "raised", !.status = status_code,
                           !.exc = "JSONDecodeError"]
            ELSE IF status_code = 201
            THEN [@ EXCEPT !.state = "done", !.status = status_code,
                           !.logged = "Order Create"]
            ELSE [@ EXCEPT !.state = "done", !.status = status_code,
                           !.logged = "Unable to [POST] /orders"]]
    /\ UNCHANGED <<cfg, pc, error, availabile_strateies, order_payloads,
                   round, clock, listing, sleepDur>>

\* post_order lines 234-235: the connection could not be established
PostOrderConnectorError(i) ==
    /\ pc = "gather"
    /\ AllStarted
    /\ i \in 1..Len(tasks)
    /\ tasks[i].state = "inflight"
    /\ tasks' = [tasks EXCEPT ![i] =
            [@ EXCEPT !.state = "done",
                      !.logged = "[POST] /orders ClientConnectorError"]]
    /\ UNCHANGED <<cfg, pc, error, availabile_strateies, order_payloads,
                   round, clock, listing, sleepDur>>

\* any other transport failure (connection reset, server disconnected,
\* payload error): not a ClientConnectorError, so the except clause of
\* line 234 does not match and the exception leaves post_order
PostOrderTransportError(i) ==
    /\ pc = "gather"
    /\ AllStarted
    /\ i \in 1..Len(tasks)
    /\ tasks[i].state = "inflight"
    /\ tasks' = [tasks EXCEPT ![i] =
            [@ EXCEPT !.state = "raised", !.exc = "ClientOSError"]]
    /\ UNCHANGED <<cfg, pc, error, availabile_strateies, order_payloads,
                   round, clock, listing, sleepDur>>

\* line 155, asyncio.gather without return_exceptions: the first exception
\* of a task is raised in manager; nothing catches it, run_until_complete
\* returns and the event loop stops with the other tasks as they are
GatherRaises ==
    /\ pc = "gather"
    /\ \E i \in 1..Len(tasks) :
        /\ tasks[i].state = "raised"
        /\ error' = tasks[i].exc
    /\ pc' = "crashed"
    /\ UNCHANGED <<cfg, availabile_strateies, order_payloads, tasks, round,
                   clock, listing, sleepDur>>

\* variant: the wait ends with the first task that returns
GatherResultReadyFirstCompleted(submitted_orders) ==
    \E i \in 1..Len(submitted_orders) : submitted_orders[i].state = "done"

\* variant: a wait that needs one task at least
GatherResultReadyNonEmpty(submitted_orders) ==
    /\ submitted_orders # <<>>
    /\ \A i \in 1..Len(submitted_orders) : submitted_orders[i].state = "done"

\* asyncio.gather(*submitted_orders) has a result: every task has returned
GatherResultReady(submitted_orders) ==
    \A i \in 1..Len(submitted_orders) : submitted_orders[i].state = "done"

\* line 155 returns once every task has returned; lines 157-162 draw the
\* duration and suspend in asyncio.sleep
GatherReturns ==
    /\ pc = "gather"
    /\ GatherResultReady(tasks)
    /\ sleepDur' \in uniform(cfg.order_submission_lower_boundary,
                             cfg.order_submission_higher_boundary)
    /\ pc' = "sleep"
    /\ UNCHANGED <<cfg, error, availabile_strateies, order_payloads, tasks,
                   round, clock, listing>>

\* variant: the loop starts over at the listing call
SleepReturnsToListing ==
    /\ pc = "sleep"
    /\ pc' = "boot"
    /\ sleepDur' = 0
    /\ UNCHANGED <<cfg, error, availabile_strateies, order_payloads, tasks,
                   round, clock, listing>>

\* asyncio.sleep returns; while True starts the next round
SleepReturns ==
    /\ pc = "sleep"
    /\ pc' = "dispatch"
    /\ sleepDur' = 0
    /\ UNCHANGED <<cfg, error, availabile_strateies, order_payloads, tasks,
                   round, clock, listing>>

\* time passes
Tick ==
    /\ clock < MaxClock
    /\ clock' = clock + 1
    /\ UNCHANGED <<cfg, pc, error, availabile_strateies, order_payloads,
                   tasks, round, listing, sleepDur>>

Next ==
    \/ GetStrategiesStart
    \/ GetStrategiesResponse
    \/ GetStrategiesTransportError
    \/ ConstructOrderPayloads
    \/ Dispatch
    \/ \E i \in 1..(2 * MaxStrategies) : PostOrderStart(i)
    \/ \E i \in 1..(2 * MaxStrategies) : PostOrderResponse(i)
    \/ \E i \in 1..(2 * MaxStrategies) : PostOrderConnectorError(i)
    \/ \E i \in 1..(2 * MaxStrategies) : PostOrderTransportError(i)
    \/ GatherRaises
    \/ GatherReturns
    \/ SleepReturns
    \/ Tick

Spec == Init /\ [][Next]_vars

(***************************************************************************)
(* The same machine with the scheduling of the event loop: a ready         *)
(* coroutine is run, and every request in flight settles.                  *)
(***************************************************************************)
Settle(i) ==
    \/ PostOrderResponse(i)
    \/ PostOrderConnectorError(i)
    \/ PostOrderTransportError(i)

FairSpec ==
    /\ Spec
    /\ WF_vars(GetStrategiesStart)
    /\ WF_vars(GetStrategiesResponse \/ GetStrategiesTransportError)
    /\ WF_vars(ConstructOrderPayloads)
    /\ WF_vars(Dispatch)
    /\ \A i \in 1..(2 * MaxStrategies) : WF_vars(PostOrderStart(i))
    /\ \A i \in 1..(2 * MaxStrategies) : WF_vars(Settle(i))
    /\ WF_vars(GatherRaises)
    /\ WF_vars(GatherReturns)
    /\ WF_vars(SleepReturns)

(***************************************************************************)
(* construct_order_payloads on its own: every list of strategies with      *)
(* distinct ids, up to MaxBuildLen of them, is handed to the builder.      *)
(***************************************************************************)
BuildConfig ==
    [paradigm_http_url |-> TestUrl,
     module_paradigm_http_url |-> TestUrl,
     paradigm_taker_account_name |-> AccountName,
     paradigm_taker_access_key |-> AccessKey,
     paradigm_taker_secret_key |-> "a2V5",
     order_number_per_strategy |-> 1,
     order_submission_lower_boundary |-> 0,
     order_submission_higher_boundary |-> 0]

InitBuild ==
    /\ cfg = BuildConfig
    /\ pc = "construct"
    /\ error = None
    /\ availabile_strateies \in
           StrategyLists(StrategyIds, BlockSizes, MaxBuildLen)
    /\ order_payloads = <<>>
    /\ tasks = <<>>
    /\ round = 0
    /\ clock = 0
    /\ listing = [NoListing EXCEPT !.state = "answered", !.status = 200,
                                   !.calls = 1]
    /\ sleepDur = 0

NextBuild == ConstructOrderPayloads

SpecBuild == InitBuild /\ [][NextBuild]_vars

(***************************************************************************)
(* The machine started with other constructor arguments: the number of     *)
(* orders per strategy, the secret key, and the module level url.          *)
(***************************************************************************)
InitWith(configs) ==
    /\ cfg \in configs
    /\ pc = "boot"
    /\ error = None
    /\ availabile_strateies = <<>>
    /\ order_payloads = <<>>
    /\ tasks = <<>>
    /\ round = 0
    /\ clock = 0
    /\ listing = NoListing
    /\ sleepDur = 0

\* int(order_number_per_strategy)
OrderNumbers == {-1, 0, 1, 2}

OrderNumberConfigs ==
    {[BuildConfig EXCEPT !.order_number_per_strategy = n] :
        n \in OrderNumbers}

InitOrderNumber == InitWith(OrderNumberConfigs)

SpecOrderNumber == InitOrderNumber /\ [][Next]_vars

\* secret keys: base64 of b'key', the placeholder of the script, and a key
\* made of characters outside the base64 alphabet
ConfiguredKeys == {"a2V5", "<secret-key>", "!!!!"}

KeyConfigs ==
    {[BuildConfig EXCEPT !.paradigm_taker_secret_key = k] :
        k \in ConfiguredKeys}

InitKeys == InitWith(KeyConfigs)

SpecKeys == InitKeys /\ [][Next]_vars

\* the module level name paradigm_http_url: the url given to the
\* constructor, another url, or no such name
AllModuleUrls == {TestUrl, OtherUrl, Undefined}

UrlConfigs ==
    {[BuildConfig EXCEPT !.module_paradigm_http_url = u] :
        u \in AllModuleUrls}

InitUrls == InitWith(UrlConfigs)

SpecUrls == InitUrls /\ [][Next]_vars

(***************************************************************************)
(* Properties.                                                             *)
(***************************************************************************)
Terminal(task) == task.state \in {"done", "raised"}

\* a submission that ended with a status other than 201 or with a
\* connection-level failure (no status at all)
Failed(task) == Terminal(task) /\ task.status # 201

\* C1: whatever the result of a submission is (201, another status, a
\* connection-level failure), it is only logged: no task of post_order ends
\* with an exception, and manager is never ended by one raised in gather.
C1_NoErrorLeavesPostOrder ==
    /\ \A i \in 1..Len(tasks) : tasks[i].state # "raised"
    /\ round >= 1 => pc # "crashed"

\* C2: rounds are strictly sequential; the step that starts the inter-round
\* sleep and the step that dispatches the next round are taken only when
\* every submission of the current round has reached a terminal outcome.
C2_RoundsSequential ==
    [][(\/ pc # "sleep" /\ pc' = "sleep"
        \/ pc = "dispatch" /\ pc' = "gather")
       => \A i \in 1..Len(tasks) : Terminal(tasks[i])]_vars

\* a second round has been dispatched after a first one of two submissions
C2_Witness ==
    /\ round = 2
    /\ pc = "gather"
    /\ Len(tasks) >= 2
    /\ \E i \in 1..Len(tasks) : tasks[i].state = "inflight"

\* C3: when a submission of a round fails, every sibling of the round still
\* reaches its own outcome and is reported, and the round ends in the sleep.
C3_FailureIsolation ==
    (pc # "gather" /\ \E i \in 1..Len(tasks) : Failed(tasks[i]))
       => /\ \A j \in 1..Len(tasks) : Terminal(tasks[j])
          /\ pc \in {"sleep", "dispatch"}

\* C4: once bootstrapping has succeeded and every call settles, rounds keep
\* being dispatched: every round is followed by the sleep, and every sleep
\* by another round.
C4_ScheduleLive ==
    /\ [](pc = "gather" => <>(pc = "sleep"))
    /\ [](pc = "sleep" => <>(pc = "gather"))

\* C5: when the listing call fails (a status other than 200, or a transport
\* failure), manager has ended with an error, no order list was built, no
\* submission was dispatched, and the listing was issued once only.
ListingFailed ==
    \/ listing.state = "failed"
    \/ listing.state = "answered" /\ listing.status # 200

C5_FatalStartup ==
    ListingFailed
       => /\ pc = "crashed"
          /\ error # None
          /\ order_payloads = <<>>
          /\ tasks = <<>>
          /\ round = 0
          /\ listing.calls = 1

\* the listing was answered with a 500
C5_Witness ==
    /\ listing.state = "answered"
    /\ listing.status = 500
    /\ pc = "crashed"

\* the order list has been built
Built == pc \in {"dispatch", "gather", "sleep"} \/ round >= 1

IndicesOf(id) ==
    {k \in 1..Len(order_payloads) : order_payloads[k].id = id}

\* C6: construct_order_payloads turns N strategies into exactly 2N orders;
\* every strategy id is carried by exactly two of them, one BUY and one
\* SELL, and the amount of an order is the min_block_size of its strategy.
C6_PayloadCompleteness ==
    Built =>
      /\ Len(order_payloads) = 2 * Len(availabile_strateies)
      /\ \A i \in 1..Len(availabile_strateies) :
           LET strategy == availabile_strateies[i]
               own == IndicesOf(strategy.id)
           IN  /\ Cardinality(own) = 2
               /\ Cardinality({k \in own :
                                  order_payloads[k].side = "BUY"}) = 1
               /\ Cardinality({k \in own :
                                  order_payloads[k].side = "SELL"}) = 1
               /\ \A k \in own :
                      order_payloads[k].amount = strategy.min_block_size
      /\ \A k \in 1..Len(order_payloads) :
           \E i \in 1..Len(availabile_strateies) :
               order_payloads[k].id = availabile_strateies[i].id

\* orders were built from two strategies or more with different block sizes
C6_Witness ==
    /\ Built
    /\ Len(availabile_strateies) >= 2
    /\ Len(order_payloads) >= 4
    /\ availabile_strateies[1].min_block_size
           # availabile_strateies[2].min_block_size

\* C7: the order list follows the arrival order of the strategies; counting
\* from 0, the order at 2i is the BUY and the order at 2i+1 the SELL of the
\* strategy at i.
C7_EmissionOrder ==
    Built =>
      /\ Len(order_payloads) = 2 * Len(availabile_strateies)
      /\ \A i \in 0..(Len(availabile_strateies) - 1) :
           /\ order_payloads[2 * i + 1].id = availabile_strateies[i + 1].id
           /\ order_payloads[2 * i + 1].side = "BUY"
           /\ order_payloads[2 * i + 2].id = availabile_strateies[i + 1].id
           /\ order_payloads[2 * i + 2].side = "SELL"

\* orders were built from strategies that did not arrive in sorted order
C7_Witness ==
    /\ Built
    /\ Len(availabile_strateies) >= 2
    /\ availabile_strateies[1].id = "s2"
    /\ availabile_strateies[2].id = "s1"
    /\ order_payloads[3].id = "s1"

Lower == cfg.order_submission_lower_boundary
Upper_ == cfg.order_submission_higher_boundary
Min(a, b) == IF a <= b THEN a ELSE b
Max(a, b) == IF a <= b THEN b ELSE a

\* C8 as stated: the duration of every inter-round sleep lies within
\* [lower boundary, upper boundary], and is that constant when both agree.
C8_SleepWithinBounds ==
    pc = "sleep" =>
      /\ Lower * SleepResolution <= sleepDur
      /\ sleepDur <= Upper_ * SleepResolution

\* C8 amended: the duration of every inter-round sleep lies between the two
\* configured boundaries, whichever is the larger; it lies within [lower,
\* upper] when lower <= upper and is the constant when both agree.
C8_SleepBetweenBoundaries ==
    pc = "sleep" =>
      /\ Min(Lower, Upper_) * SleepResolution <= sleepDur
      /\ sleepDur <= Max(Lower, Upper_) * SleepResolution
      /\ Lower <= Upper_ =>
            /\ Lower * SleepResolution <= sleepDur
            /\ sleepDur <= Upper_ * SleepResolution
      /\ Lower = Upper_ => sleepDur = Lower * SleepResolution

\* a sleep strictly inside the interval of two different boundaries
C8_Witness ==
    /\ pc = "sleep"
    /\ Lower < Upper_
    /\ Lower * SleepResolution < sleepDur
    /\ sleepDur < Upper_ * SleepResolution

\* the requests issued so far that are still part of the state
IssuedRequests ==
    (IF listing.state # "none" THEN {listing.req} ELSE {})
    \cup {tasks[i].req : i \in {j \in 1..Len(tasks) :
                                   tasks[j].state # "created"
                                   /\ tasks[j].req # NoReq}}

\* C9: the message signed for a request is its timestamp string, its
\* upper-cased method, its path with the query string and its body, in
\* that order and separated by single newlines, with the empty body for the
\* listing; the signature is the digest of that message keyed with the
\* decoded secret key.
C9_SignedMessage ==
    /\ \A r \in IssuedRequests :
         /\ r.signed.message =
                r.signed.timestamp \o "\n" \o r.method \o "\n"
                    \o r.path \o "\n" \o r.body
         /\ r.method \in {"GET", "POST"}
         /\ r.signed.signature =
                B64Encode(HmacSha256(B64Decode(cfg.paradigm_taker_secret_key),
                                     r.signed.message))
    /\ listing.state # "none" =>
         listing.req.signed.message =
             listing.req.signed.timestamp
                 \o "\nGET\n/v1/fs/strategies?page_size=100\n"

\* a submission was signed at a later clock reading than the listing
C9_Witness ==
    /\ listing.state = "answered"
    /\ \E i \in 1..Len(tasks) :
         /\ tasks[i].state = "inflight"
         /\ tasks[i].req.signed.timestamp # listing.req.signed.timestamp
         /\ tasks[i].req.method = "POST"

\* the (timestamp, signature) pair a request carries in its headers
SentPair(r) == <<r.headers[TimestampHeader], r.headers[SignatureHeader]>>

\* the (timestamp, signature) pair sign_request returned for a request
SignedPair(r) == <<r.signed.timestamp, r.signed.signature>>

\* C10: every request carries exactly the three headers; its timestamp
\* header is the timestamp inside the message signed for it, its signature
\* header the signature of that message, and no request carries the pair
\* that was computed for another request.
C10_FreshSignature ==
    /\ \A r \in IssuedRequests :
         /\ DOMAIN r.headers =
                {"Paradigm-API-Timestamp", "Paradigm-API-Signature",
                 "Authorization"}
         /\ r.headers["Authorization"]
                = "Bearer " \o cfg.paradigm_taker_access_key
         /\ SentPair(r) = SignedPair(r)
         /\ r.signed.message =
                r.headers["Paradigm-API-Timestamp"] \o "\n" \o r.method
                    \o "\n" \o r.path \o "\n" \o r.body
    /\ \A r1, r2 \in IssuedRequests :
         r1 # r2 => SentPair(r1) # SignedPair(r2)

\* two submissions of a second round are in flight, signed at different
\* clock readings
C10_Witness ==
    /\ round = 2
    /\ Len(tasks) >= 2
    /\ tasks[1].state = "inflight"
    /\ tasks[2].state = "inflight"
    /\ SentPair(tasks[1].req)[1] # SentPair(tasks[2].req)[1]

\* the orders of one BUY and one SELL per strategy, in arrival order
ExpectedOrders ==
    [k \in 1..(2 * Len(availabile_strateies)) |->
        LET strategy == availabile_strateies[(k + 1) \div 2]
        IN  [id |-> strategy.id,
             side |-> IF k % 2 = 1 THEN "BUY" ELSE "SELL",
             amount |-> strategy.min_block_size,
             account_name |-> cfg.paradigm_taker_account_name,
             type |-> "MARKET",
             price |-> "None"]]

KeyErrorAtStartup ==
    /\ listing.state = "none"
    /\ listing.calls = 0
    /\ round = 0
    /\ tasks = <<>>
    /\ pc # "boot" => pc = "crashed" /\ error = "binascii.Error"

\* the configured keys that are valid standard base64
StandardBase64Keys == {"a2V5"}

\* the configured keys b64decode raises on: the characters of the base64
\* alphabet they contain are not a padded multiple of four
UndecodableKeys == {"<secret-key>"}

\* C12 as stated: with a secret key that is not valid standard base64 the
\* first sign_request fails, no request is sent, no submission is
\* dispatched and the loop is not entered.
C12_InvalidKeyFatal ==
    cfg.paradigm_taker_secret_key \notin StandardBase64Keys
       => KeyErrorAtStartup

\* C12 amended: with a secret key that b64decode rejects the first
\* sign_request fails, no request is sent, no submission is dispatched and
\* the loop is not entered.
C12_UndecodableKeyFatal ==
    cfg.paradigm_taker_secret_key \in UndecodableKeys
       => KeyErrorAtStartup

\* manager ended on the placeholder key
C12_Witness ==
    /\ cfg.paradigm_taker_secret_key = "<secret-key>"
    /\ pc = "crashed"
    /\ error = "binascii.Error"
    /\ listing.state = "none"

\* C13: the listing call is issued exactly once in the whole execution; it
\* has been answered before the order list is built, and the order list has
\* been built before the first submission is dispatched.
C13_BootstrapOnce ==
    /\ listing.calls <= 1
    /\ pc \in {"construct", "dispatch", "gather", "sleep"} \/ round >= 1
         => /\ listing.calls = 1
            /\ listing.state = "answered"
            /\ listing.status = 200
    /\ pc \in {"boot", "listing", "construct"}
         => order_payloads = <<>> /\ tasks = <<>> /\ round = 0
    /\ round >= 1 \/ tasks # <<>>
         => Len(order_payloads) = 2 * Len(availabile_strateies)

\* a second round is in flight after the one listing call
C13_Witness ==
    /\ round = 2
    /\ pc = "gather"
    /\ listing.calls = 1
    /\ \E i \in 1..Len(tasks) : tasks[i].state = "inflight"

\* C14: once built, the strategy list and the order list are changed by no
\* step of the loop, and the submissions a round dispatches are those of
\* the orders of the list, one per order and in its order.
C14_IntentsFrozen ==
    [][Built =>
         /\ order_payloads' = order_payloads
         /\ availabile_strateies' = availabile_strateies
         /\ (pc = "dispatch" /\ pc' = "gather") =>
              /\ Len(tasks') = Len(order_payloads)
              /\ \A i \in 1..Len(order_payloads) :
                   tasks'[i].payload =
                       [account_name |-> order_payloads[i].account_name,
                        strategy_id |-> order_payloads[i].id,
                        type |-> order_payloads[i].type,
                        amount |-> order_payloads[i].amount,
                        side |-> order_payloads[i].side]]_vars

\* the sleep after a second round over a list of two orders
C14_Witness ==
    /\ round = 2
    /\ pc = "sleep"
    /\ Len(order_payloads) >= 2
    /\ Len(tasks) = Len(order_payloads)

InFlight == {i \in 1..Len(tasks) : tasks[i].state = "inflight"}

\* C15: a round has exactly one submission per order, all of them created
\* before manager waits; at most that many submissions are in flight, and
\* when a round is about to be dispatched no submission of an earlier round
\* is unfinished.
C15_BoundedFanOut ==
    /\ round = 0 => tasks = <<>>
    /\ round >= 1 => Len(tasks) = Len(order_payloads)
    /\ Cardinality(InFlight) <= Len(order_payloads)
    /\ pc = "dispatch" => \A i \in 1..Len(tasks) : Terminal(tasks[i])
    /\ pc = "sleep" => \A i \in 1..Len(tasks) : Terminal(tasks[i])

\* every submission of a round of two or more is in flight
C15_Witness ==
    /\ pc = "gather"
    /\ Len(tasks) >= 2
    /\ Cardinality(InFlight) = Len(order_payloads)

\* the submissions that were answered with an HTTP response
Answered == {i \in 1..Len(tasks) : tasks[i].status # 0}

\* C16: a submission is reported as created exactly when the status of its
\* response is 201; a response with another status is reported as a
\* rejection; in both cases post_order returns.
C16_OutcomeClassification ==
    \A i \in Answered :
       /\ tasks[i].state = "done"
       /\ tasks[i].logged = "Order Create" <=> tasks[i].status = 201
       /\ tasks[i].status # 201 =>
             tasks[i].logged = "Unable to [POST] /orders"

\* the payloads handed to post_order and the bodies transmitted for them
SubmittedPayloads == {tasks[i].payload : i \in 1..Len(tasks)}

\* C17: every order payload submitted has exactly the fields account_name,
\* strategy_id, type, amount and side, its type is MARKET, and neither the
\* payload nor the transmitted body carries a price.
C17_MarketOrdersOnly ==
    /\ \A p \in SubmittedPayloads :
         /\ DOMAIN p = {"account_name", "strategy_id", "type", "amount",
                        "side"}
         /\ p.type = "MARKET"
    /\ \A i \in {j \in 1..Len(tasks) : tasks[j].state # "created"} :
         tasks[i].req.body =
             "{\"account_name\": \"" \o tasks[i].payload.account_name
                 \o "\", \"strategy_id\": \"" \o tasks[i].payload.strategy_id
                 \o "\", \"type\": \"MARKET\", \"amount\": "
                 \o ToString(tasks[i].payload.amount)
                 \o ", \"side\": \"" \o tasks[i].payload.side \o "\"}"

\* a SELL order is in flight
C17_Witness ==
    \E i \in InFlight :
       /\ tasks[i].payload.side = "SELL"
       /\ tasks[i].req.method = "POST"

\* the listing was answered with a results array of no strategy
EmptyStrategySet ==
    /\ listing.state = "answered"
    /\ listing.status = 200
    /\ error # "KeyError"
    /\ availabile_strateies = <<>>

\* C18: with an empty strategy set the order list is empty, no submission
\* exists, manager does not fail, and it keeps cycling: every round is
\* followed by the sleep and every sleep by another round.
C18_EmptySetCycles ==
    /\ [](EmptyStrategySet =>
            /\ pc \in {"construct", "dispatch", "gather", "sleep"}
            /\ error = None
            /\ order_payloads = <<>>
            /\ tasks = <<>>)
    /\ [](EmptyStrategySet => <>(pc = "sleep"))
    /\ []((EmptyStrategySet /\ pc = "sleep") => <>(pc = "gather"))

\* the sleep after a second round that had nothing to submit
C18_Witness ==
    /\ EmptyStrategySet
    /\ round = 2
    /\ pc = "sleep"
    /\ tasks = <<>>

Started == {i \in 1..Len(tasks) : tasks[i].state # "created"}

\* C19: for every submission the body handed to the signer is the body that
\* is transmitted, the serialization of the order payload, and the signed
\* method and path are POST /v1/fs/orders, those of the request; for the
\* listing they are GET /v1/fs/strategies?page_size=100 and the empty body.
C19_SignatureBindsRequest ==
    /\ \A i \in Started :
         LET r == tasks[i].req
             p == tasks[i].payload
         IN  /\ r.method = "POST"
             /\ r.path = "/v1/fs/orders"
             /\ r.body =
                    "{\"account_name\": \"" \o p.account_name
                        \o "\", \"strategy_id\": \"" \o p.strategy_id
                        \o "\", \"type\": \"" \o p.type
                        \o "\", \"amount\": " \o ToString(p.amount)
                        \o ", \"side\": \"" \o p.side \o "\"}"
             /\ r.signed.message =
                    r.signed.timestamp \o "\nPOST\n/v1/fs/orders\n" \o r.body
    /\ listing.state # "none" =>
         LET r == listing.req
         IN  /\ r.method = "GET"
             /\ r.path = "/v1/fs/strategies?page_size=100"
             /\ r.body = ""
             /\ r.signed.message =
                    r.signed.timestamp
                        \o "\nGET\n/v1/fs/strategies?page_size=100\n"

\* the BUY and the SELL order of a strategy have been sent
C19_Witness ==
    /\ listing.state = "answered"
    /\ Cardinality(Started) >= 2
    /\ \E i, j \in Started :
         /\ tasks[i].payload.side = "BUY"
         /\ tasks[j].payload.side = "SELL"
         /\ tasks[i].req.body # tasks[j].req.body

\* C20: every request of the instance, the listing and the submissions, is
\* sent to the base url that was passed to its constructor.
C20_RequestTarget ==
    \A r \in IssuedRequests : r.url = cfg.paradigm_http_url \o r.path

====
